---- MODULE Spec2Model ----
(***************************************************************************)
(* A model of rayox (src/src/main.rs, src/src/vec.rs): the vector kernel,  *)
(* the ray/sphere intersection, the recursive trace function and the      *)
(* image loop of render.                                                   *)
(*                                                                         *)
(* f32 values are modelled bit for bit (IEEE 754 binary32): +, -, *, / and *)
(* sqrt are correctly rounded (round to nearest, ties to even), with       *)
(* subnormals, signed zeros, infinities and NaN; arithmetic on NaN gives   *)
(* NaN and every comparison with NaN is false.                             *)
(***************************************************************************)
EXTENDS Integers, Sequences, FiniteSets

VARIABLES
    scene,     \* spheres: &[Sphere], read-only during a run
    stack,     \* the call stack of trace: one frame per active invocation
    ret,       \* the value the last finished invocation of trace returned
    ncalls,    \* number of invocations of trace made so far
    maxseen,   \* greatest depth any invocation of trace has run with
    last,      \* what the last step of trace did
    ray0,      \* the ray of the outermost trace call (standalone call)
    depth0,    \* the depth of the outermost trace call
    rpc,       \* position of render: "off", "loop", "call", "opening", "ok",
               \* "err", "panic"
    rx, ry,    \* loop variables x and y of render
    image,     \* the flat pixel buffer of render
    written,   \* per buffer index, the pixels (x, y) stored there, in order
    visits,    \* the pixels traced so far, in order, each with its colour
    gray,      \* direct calls: the ray intersect and the search are applied to
    gres,      \* direct calls: the result of intersect for each sphere of scene
    gnear,     \* direct calls: the result of the nearest-hit search
    gpc        \* direct calls: "in", "hit" (intersect applied), "out"

vars == <<scene, stack, ret, ncalls, maxseen, last, ray0, depth0,
          rpc, rx, ry, image, written, visits,
          gray, gres, gnear, gpc>>

traceVars == <<stack, ret, ncalls, maxseen, last, ray0, depth0>>
renderVars == <<rpc, rx, ry, image, written, visits>>
geomVars == <<gray, gres, gnear, gpc>>

-----------------------------------------------------------------------------
(* f32: IEEE 754 binary32, round to nearest even *)

\* An f32 is modelled bit for bit by an integer: with b the 31 bits of its
\* exponent and fraction fields, b stands for the positive value and -b - 1
\* for the negative one (0 is +0.0 and -1 is -0.0).  Every operation below
\* gives the correctly rounded result of the IEEE operation, computed in
\* parts that stay within 32-bit integers.

\* `let x = v; ...`: v is computed once and the rest, Op, uses its value.
Let(v, Op(_)) == CHOOSE r \in {Op(x) : x \in {v}} : TRUE

\* The same for two values, as for the two operands of an operation.
Let2(u, v, Op(_, _)) == CHOOSE r \in {Op(x, y) : x \in {u}, y \in {v}} : TRUE

\* f32::INFINITY: exponent field 255, fraction 0.
INFINITY == 255 * 2 ^ 23

\* f32::NAN: the quiet NaN; every integer whose bits exceed INFINITY is a NaN.
NaN == INFINITY + 2 ^ 22

\* The exponent and fraction bits of x.
Bits(x) == IF x < 0 THEN -x - 1 ELSE x

\* The sign bit of x.
Negative(x) == x < 0

\* The f32 with the given sign and the bits b.
Signed(neg, b) == IF neg THEN -b - 1 ELSE b

IsNaN(a) == Bits(a) > INFINITY

IsInf(a) == Bits(a) = INFINITY

IsZero(a) == Bits(a) = 0

\* The number of binary digits of n, for 0 <= n < 2^31.
BitLen(n) == IF n = 0 THEN 0 ELSE CHOOSE k \in 1..31 : n \div 2 ^ (k - 1) = 1

\* The significand m and exponent e of a finite non-zero x = m * 2^e, as
\* stored: m < 2^23 and e = -149 for a subnormal x.
RawMan(x) ==
    IF Bits(x) \div 2 ^ 23 = 0 THEN Bits(x) % 2 ^ 23
    ELSE 2 ^ 23 + (Bits(x) % 2 ^ 23)

RawExp(x) ==
    IF Bits(x) \div 2 ^ 23 = 0 THEN -149 ELSE Bits(x) \div 2 ^ 23 - 150

\* The same with the significand shifted into 2^23 .. 2^24 - 1.
NormShift(x) ==
    IF Bits(x) \div 2 ^ 23 = 0 THEN 24 - BitLen(Bits(x) % 2 ^ 23) ELSE 0

NMan(x) == RawMan(x) * 2 ^ NormShift(x)

NExp(x) == RawExp(x) - NormShift(x)

RECURSIVE Pack(_, _, _)
\* The f32 of sign neg and value q * 2^e, for q <= 2^24 and e >= -149 (e = -149
\* when q < 2^23): infinity when the exponent is out of range.
Pack(neg, q, e) ==
    IF q < 2 ^ 23 THEN Signed(neg, q)
    ELSE IF q = 2 ^ 24 THEN Pack(neg, 2 ^ 23, e + 1)
    ELSE IF e + 150 >= 255 THEN Signed(neg, INFINITY)
    ELSE Signed(neg, (e + 150) * 2 ^ 23 + q - 2 ^ 23)

\* The last step of rounding: t holds the kept digits and the first dropped
\* one, lowOrSticky tells whether anything non-zero follows it.
RoundUp(neg, t, lowOrSticky, e) ==
    IF t % 2 = 1 /\ (lowOrSticky \/ (t \div 2) % 2 = 1)
    THEN Pack(neg, t \div 2 + 1, e)
    ELSE Pack(neg, t \div 2, e)

\* (m + d) * 2^e with its last sh binary digits rounded away (sh <= 0 shifts
\* left, which is exact).
RoundShift(neg, m, e, sticky, sh) ==
    IF sh <= 0 THEN Pack(neg, m * 2 ^ (-sh), e + sh)
    ELSE IF sh > 31 THEN Signed(neg, 0)
    ELSE RoundUp(neg, m \div 2 ^ (sh - 1),
                 sticky \/ m % 2 ^ (sh - 1) # 0, e + sh)

Max(a, b) == IF a > b THEN a ELSE b

\* The f32 nearest to (m + d) * 2^e, ties to even, for 0 < m < 2^31 and a
\* fraction d in [0, 1) that is non-zero iff sticky (then m >= 2^25).
RoundPack(neg, m, e, sticky) ==
    Let2(m, e, LAMBDA mv, ev :
        Let(Max(BitLen(mv) - 24, -149 - ev), LAMBDA sh :
            RoundShift(neg, mv, ev, sticky, sh)))

\* a as f32, for a whole number a with |a| < 2^24 (literals and `as f32`).
F(a) == IF a = 0 THEN 0 ELSE RoundPack(a < 0, IF a < 0 THEN -a ELSE a, 0, FALSE)

FNeg(a) == -a - 1

\* Shift v right by d digits, or-ing the digits shifted out into the last one.
Jam(v, d) ==
    IF d = 0 THEN v
    ELSE IF d > 27 THEN 1
    ELSE IF v % 2 ^ d # 0 /\ (v \div 2 ^ d) % 2 = 0 THEN v \div 2 ^ d + 1
    ELSE v \div 2 ^ d

\* The sum of two finite non-zero values given by sign and significand (with
\* three guard digits), the first significand at the greater exponent e.
AddAligned(sl, a, ss, b, e) ==
    IF sl = ss THEN RoundPack(sl, a + b, e, FALSE)
    ELSE IF a > b THEN RoundPack(sl, a - b, e, FALSE)
    ELSE IF a < b THEN RoundPack(ss, b - a, e, FALSE)
    ELSE 0

AddMan(sl, ml, el, ss, ms, es) ==
    Let(Jam(ms * 8, el - es), LAMBDA b :
        AddAligned(sl, ml * 8, ss, b, el - 3))

AddVal(a, b) ==
    IF IsNaN(a) \/ IsNaN(b) THEN NaN
    ELSE IF IsInf(a)
         THEN (IF IsInf(b) /\ Negative(a) # Negative(b) THEN NaN ELSE a)
    ELSE IF IsInf(b) THEN b
    ELSE IF IsZero(a)
         THEN (IF IsZero(b)
               THEN (IF Negative(a) = Negative(b) THEN a ELSE 0)
               ELSE b)
    ELSE IF IsZero(b) THEN a
    ELSE IF RawExp(a) >= RawExp(b)
         THEN AddMan(Negative(a), RawMan(a), RawExp(a),
                     Negative(b), RawMan(b), RawExp(b))
    ELSE AddMan(Negative(b), RawMan(b), RawExp(b),
                Negative(a), RawMan(a), RawExp(a))

\* f32 +.
FAdd(a, b) == Let2(a, b, AddVal)

\* f32 -.
FSub(a, b) == FAdd(a, FNeg(b))

\* The 48-digit product as its upper and lower 24 digits, rounded.
MulJoin(neg, top, low, e) ==
    RoundPack(neg, top * 64 + low \div 2 ^ 18, e + 18, low % 2 ^ 18 # 0)

MulCarry(neg, hi, c, lo, e) ==
    MulJoin(neg, c \div 4096 + hi, (c % 4096) * 4096 + (lo % 4096), e)

MulParts(neg, hi, mid, lo, e) == MulCarry(neg, hi, lo \div 4096 + mid, lo, e)

\* The product of two significands, multiplied in halves of 12 digits.
MulMan(neg, ma, mb, e) ==
    MulParts(neg, (ma \div 4096) * (mb \div 4096),
             ((ma \div 4096) * (mb % 4096)) + ((ma % 4096) * (mb \div 4096)),
             (ma % 4096) * (mb % 4096), e)

MulVal(a, b) ==
    IF IsNaN(a) \/ IsNaN(b) THEN NaN
    ELSE IF IsInf(a) \/ IsInf(b)
         THEN (IF IsZero(a) \/ IsZero(b) THEN NaN
               ELSE Signed(Negative(a) # Negative(b), INFINITY))
    ELSE IF IsZero(a) \/ IsZero(b) THEN Signed(Negative(a) # Negative(b), 0)
    ELSE Let2(NMan(a), NMan(b), LAMBDA ma, mb :
             MulMan(Negative(a) # Negative(b), ma, mb, NExp(a) + NExp(b)))

\* f32 *.
FMul(a, b) == Let2(a, b, MulVal)

RECURSIVE DivLoop(_, _, _, _, _, _)
\* Long division, seven binary digits per step: q and r are the quotient and
\* the remainder so far, n the number of steps still to take.
DivLoop(neg, e, q, r, b, n) ==
    IF n = 0 THEN RoundPack(neg, q, e, r # 0)
    ELSE DivLoop(neg, e, 128 * q + (128 * r) \div b, (128 * r) % b, b, n - 1)

\* ma / mb for significands in 2^23 .. 2^24 - 1, to 28 binary places.
DivMan(neg, ma, mb, e) ==
    Let2(ma \div mb, ma % mb, LAMBDA q, r : DivLoop(neg, e - 28, q, r, mb, 4))

DivVal(a, b) ==
    IF IsNaN(a) \/ IsNaN(b) THEN NaN
    ELSE IF IsInf(a)
         THEN (IF IsInf(b) THEN NaN
               ELSE Signed(Negative(a) # Negative(b), INFINITY))
    ELSE IF IsInf(b) THEN Signed(Negative(a) # Negative(b), 0)
    ELSE IF IsZero(b)
         THEN (IF IsZero(a) THEN NaN
               ELSE Signed(Negative(a) # Negative(b), INFINITY))
    ELSE IF IsZero(a) THEN Signed(Negative(a) # Negative(b), 0)
    ELSE Let2(NMan(a), NMan(b), LAMBDA ma, mb :
             DivMan(Negative(a) # Negative(b), ma, mb, NExp(a) - NExp(b)))

\* f32 /.
FDiv(a, b) == Let2(a, b, DivVal)

\* One digit of the square root: s = <<q, r>> is the root and the remainder
\* so far, p the next two digits of the radicand.
SqrtStep(s, p) ==
    IF 4 * s[2] + p >= 4 * s[1] + 1
    THEN <<2 * s[1] + 1, 4 * s[2] + p - (4 * s[1] + 1)>>
    ELSE <<2 * s[1], 4 * s[2] + p>>

RECURSIVE SqrtLoop(_, _, _, _)
\* The square root of m * 2^28 digit by digit: steps 26 .. 14 take the digit
\* pairs of m, the later ones zeros.
SqrtLoop(e, s, m, i) ==
    IF i < 0 THEN RoundPack(FALSE, s[1], e, s[2] # 0)
    ELSE Let(SqrtStep(s, IF i >= 14 THEN (m \div 4 ^ (i - 14)) % 4 ELSE 0),
             LAMBDA s2 : SqrtLoop(e, s2, m, i - 1))

SqrtMan(m, e) ==
    IF e % 2 # 0
    THEN Let2(2 * m, (e - 1) \div 2 - 14, LAMBDA m2, e2 :
             SqrtLoop(e2, <<0, 0>>, m2, 26))
    ELSE Let2(m, e \div 2 - 14, LAMBDA m2, e2 : SqrtLoop(e2, <<0, 0>>, m2, 26))

SqrtVal(x) ==
    IF IsNaN(x) THEN NaN
    ELSE IF IsZero(x) THEN x
    ELSE IF Negative(x) THEN NaN
    ELSE IF IsInf(x) THEN x
    ELSE SqrtMan(NMan(x), NExp(x))

\* f32::sqrt: NaN for a negative argument.
FSqrt(x) == Let(x, SqrtVal)

\* The position of a non-NaN x in the order of the values (-0.0 at +0.0).
Key(x) == IF x < 0 THEN x + 1 ELSE x

\* The comparisons of f32: false when either side is NaN.
FLt(a, b) ==
    Let2(a, b, LAMBDA x, y : ~IsNaN(x) /\ ~IsNaN(y) /\ Key(x) < Key(y))

FGt(a, b) ==
    Let2(a, b, LAMBDA x, y : ~IsNaN(x) /\ ~IsNaN(y) /\ Key(x) > Key(y))

\* a <= b on f32: false when either side is NaN.
FLeq(a, b) ==
    Let2(a, b, LAMBDA x, y : ~IsNaN(x) /\ ~IsNaN(y) /\ Key(x) <= Key(y))

\* f32::abs.
FAbs(a) == Bits(a)

\* f32::max: the other operand when one is NaN, the first of two operands
\* that compare equal.
FMax(a, b) ==
    Let2(a, b, LAMBDA x, y :
        IF IsNaN(x) THEN y ELSE IF IsNaN(y) THEN x
        ELSE IF FLt(x, y) THEN y ELSE x)

\* The f32 literal of m ten-thousandths: D(1) is 1e-4, D(5000) is 0.5.
D(m) == FDiv(F(m), F(10000))

\* f32::powi(3).
Powi3(a) == Let(a, LAMBDA x : FMul(FMul(x, x), x))

-----------------------------------------------------------------------------
(* vec.rs *)

Vec3(a, b, c) == [x |-> a, y |-> b, z |-> c]

new_uniform(a) == Vec3(a, a, a)

dot_product(u, v) ==
    Let2(u, v, LAMBDA self, rhs :
        FAdd(FAdd(FMul(self.x, rhs.x), FMul(self.y, rhs.y)),
             FMul(self.z, rhs.z)))

sqr_magnitude(v) ==
    Let(v, LAMBDA self :
        FAdd(FAdd(FMul(self.x, self.x), FMul(self.y, self.y)),
             FMul(self.z, self.z)))

VAdd(u, v) ==
    Let2(u, v, LAMBDA self, rhs :
        Vec3(FAdd(self.x, rhs.x), FAdd(self.y, rhs.y), FAdd(self.z, rhs.z)))

VSub(u, v) ==
    Let2(u, v, LAMBDA self, rhs :
        Vec3(FSub(self.x, rhs.x), FSub(self.y, rhs.y), FSub(self.z, rhs.z)))

\* Mul for Vec3: component-wise.
VMul(u, v) ==
    Let2(u, v, LAMBDA self, rhs :
        Vec3(FMul(self.x, rhs.x), FMul(self.y, rhs.y), FMul(self.z, rhs.z)))

\* Mul<T> for Vec3: by a scalar.
VScale(v, a) ==
    Let2(v, a, LAMBDA self, rhs :
        Vec3(FMul(self.x, rhs), FMul(self.y, rhs), FMul(self.z, rhs)))

VNeg(v) == Let(v, LAMBDA self : Vec3(FNeg(self.x), FNeg(self.y), FNeg(self.z)))

normalized(v) ==
    Let(v, LAMBDA self :
    Let(sqr_magnitude(self), LAMBDA sqr_normal :
        IF FGt(sqr_normal, 0)
        THEN Let(FDiv(F(1), FSqrt(sqr_normal)), LAMBDA inv_normal :
                 Vec3(FMul(self.x, inv_normal), FMul(self.y, inv_normal),
                      FMul(self.z, inv_normal)))
        ELSE self))

\* Vec3f::default().
VDefault == new_uniform(F(0))

-----------------------------------------------------------------------------
(* main.rs: Sphere, Ray, intersect *)

\* struct Sphere, built with sqr_radius = radius * radius.
Sphere(c, r, col, em, t, refl) ==
    Let(r, LAMBDA radius :
        [center |-> c, radius |-> radius, sqr_radius |-> FMul(radius, radius),
         surface_color |-> col, emission |-> em,
         transparency |-> t, reflection |-> refl])

Ray(o, d) == [origin |-> o, direction |-> d]

\* Option<(f32, f32)>.
None == [some |-> FALSE, t0 |-> 0, t1 |-> 0]

Some(a, b) == [some |-> TRUE, t0 |-> a, t1 |-> b]

\* intersect without the early return on tca < 0.
intersect_NoBehind(sphere, ray) ==
    Let(VSub(sphere.center, ray.origin), LAMBDA l :
    Let(dot_product(l, ray.direction), LAMBDA tca :
    Let(FSub(dot_product(l, l), FMul(tca, tca)), LAMBDA d2 :
        IF FGt(d2, sphere.sqr_radius) THEN None
        ELSE Let(FSqrt(FSub(sphere.sqr_radius, d2)), LAMBDA thc :
                 Some(FSub(tca, thc), FAdd(tca, thc))))))

\* intersect with the square root of thc left out.
intersect_NoSqrt(sphere, ray) ==
    Let(VSub(sphere.center, ray.origin), LAMBDA l :
    Let(dot_product(l, ray.direction), LAMBDA tca :
        IF FLt(tca, 0) THEN None
        ELSE Let(FSub(dot_product(l, l), FMul(tca, tca)), LAMBDA d2 :
                 IF FGt(d2, sphere.sqr_radius) THEN None
                 ELSE Let(FSub(sphere.sqr_radius, d2), LAMBDA thc :
                          Some(FSub(tca, thc), FAdd(tca, thc))))))

intersect(sphere, ray) ==
    Let(VSub(sphere.center, ray.origin), LAMBDA l :
    Let(dot_product(l, ray.direction), LAMBDA tca :
        IF FLt(tca, 0) THEN None
        ELSE Let(FSub(dot_product(l, l), FMul(tca, tca)), LAMBDA d2 :
                 IF FGt(d2, sphere.sqr_radius) THEN None
                 ELSE Let(FSqrt(FSub(sphere.sqr_radius, d2)), LAMBDA thc :
                          Some(FSub(tca, thc), FAdd(tca, thc))))))

-----------------------------------------------------------------------------
(* main.rs: trace, as pure steps *)

MAX_RAY_DEPTH == 5

\* let bias: f32 = 1e-4.
bias == D(1)

\* let ior: f32 = 1.1.
ior == D(11000)

mix(a, b, m) == FAdd(FMul(b, m), FMul(a, FSub(F(1), m)))

\* Black returned when nothing is hit.
Background_Black == new_uniform(F(0))

\* Vec3f::new_uniform(2.0), the colour trace returns when nothing is hit.
Background == new_uniform(F(2))

\* The initial value of `near`: (f32::INFINITY, None); idx 0 is None.
NoHit == [t |-> INFINITY, idx |-> 0]

\* The iteration with `<=` in place of `<`: the last sphere of a tie wins.
NearStep_Last(near, spheres, i, ray) ==
    Let(intersect(spheres[i], ray), LAMBDA r :
        IF r.some
        THEN Let(IF FLt(r.t0, 0) THEN r.t1 ELSE r.t0, LAMBDA t0 :
                 IF FLeq(t0, near.t) THEN [t |-> t0, idx |-> i] ELSE near)
        ELSE near)

\* The iteration without the substitution of t1 for a negative t0.
NearStep_NoSub(near, spheres, i, ray) ==
    Let(intersect(spheres[i], ray), LAMBDA r :
        IF r.some
        THEN IF FLt(r.t0, near.t) THEN [t |-> r.t0, idx |-> i] ELSE near
        ELSE near)

\* One iteration of the nearest-hit loop, for the sphere at index i.
NearStep(near, spheres, i, ray) ==
    Let(intersect(spheres[i], ray), LAMBDA r :
        IF r.some
        THEN Let(IF FLt(r.t0, 0) THEN r.t1 ELSE r.t0, LAMBDA t0 :
                 IF FLt(t0, near.t) THEN [t |-> t0, idx |-> i] ELSE near)
        ELSE near)

RECURSIVE NearScan(_, _, _, _)
NearScan(near, spheres, i, ray) ==
    IF i > Len(spheres) THEN near
    ELSE Let2(NearStep(near, spheres, i, ray), i + 1, LAMBDA n, j :
             NearScan(n, spheres, j, ray))

\* The nearest-hit loop of trace: `for sphere in spheres { ... }`.
NearestHit(spheres, ray) == NearScan(NoHit, spheres, 1, ray)

\* hit_point, hit_normal and is_inside of a hit.
HitOf(spheres, ray, near) ==
    Let(VAdd(ray.origin, VScale(ray.direction, near.t)), LAMBDA hit_point :
    Let(normalized(VSub(hit_point, spheres[near.idx].center)), LAMBDA n0 :
    Let(FGt(dot_product(ray.direction, n0), 0), LAMBDA is_inside :
        [hit_point  |-> hit_point,
         hit_normal |-> IF is_inside THEN VNeg(n0) ELSE n0,
         is_inside  |-> is_inside])))

\* The condition of the specular branch.
SpecularCond(depth, sphere) ==
    /\ depth < MAX_RAY_DEPTH
    /\ (FGt(sphere.transparency, 0) \/ FGt(sphere.reflection, 0))

\* The refraction ray traced for every sphere.
RefractCond_Always(sphere) == TRUE

\* Whether the specular branch traces a refraction ray.
RefractCond(sphere) == FGt(sphere.transparency, 0)

\* The recursive call made with the caller's own depth.
ChildDepth_Same(depth) == depth

\* The depth trace passes to a recursive call.
ChildDepth(depth) == depth + 1

fresnel_effect(ray, h) ==
    LET facing_ratio == FNeg(dot_product(ray.direction, h.hit_normal))
    IN  mix(Powi3(FSub(F(1), facing_ratio)), F(1), D(1000))

ReflectRay(ray, h) ==
    LET reflect_dir ==
            VSub(ray.direction,
                 VScale(VScale(h.hit_normal, F(2)),
                        dot_product(ray.direction, h.hit_normal)))
    IN  Ray(VAdd(h.hit_point, VScale(h.hit_normal, bias)),
            normalized(reflect_dir))

RefractRay(ray, h) ==
    Let2(IF h.is_inside THEN ior ELSE FDiv(F(1), ior),
         FNeg(dot_product(h.hit_normal, ray.direction)), LAMBDA eta, cosi :
        LET k == FSub(F(1), FMul(FMul(eta, eta), FSub(F(1), FMul(cosi, cosi))))
            refract_dir ==
                VAdd(VScale(ray.direction, eta),
                     VScale(h.hit_normal, FSub(FMul(eta, cosi), FSqrt(k))))
        IN  Ray(VSub(h.hit_point, VScale(h.hit_normal, bias)),
                normalized(refract_dir)))

\* The value of the specular branch plus the emission.
SpecularColor(sphere, fresnel, reflection, refraction) ==
    Let(fresnel, LAMBDA fresnel_effect_ :
        VAdd(VMul(VAdd(VScale(reflection, fresnel_effect_),
                       VScale(VScale(refraction, FSub(F(1), fresnel_effect_)),
                              sphere.transparency)),
                  sphere.surface_color),
             sphere.emission))

\* Whether the diffuse branch treats the sphere as a light.
IsLight(sphere) == FGt(sphere.emission.x, 0)

\* The shadow loop skipping the shaded sphere as well as the light.
ShadowSkip_Shaded(i, j, shaded) == i = j \/ j = shaded

\* Whether the shadow loop for light i skips the sphere at index j.
ShadowSkip(i, j, shaded) == i = j

\* The shadow loop never run: no sphere blocks any light.
ShadowScan_Off(spheres, i, shaded, light_ray, j, probes) ==
    [blocker |-> 0, probes |-> {}]

RECURSIVE ShadowScan(_, _, _, _, _, _)
\* The inner loop over other_sphere, from index j on: the index of the sphere
\* that blocked the light (0 when none did) and the indices it tested.
ShadowScan(spheres, i, shaded, light_ray, j, probes) ==
    IF j > Len(spheres) THEN [blocker |-> 0, probes |-> probes]
    ELSE IF ShadowSkip(i, j, shaded)
         THEN ShadowScan(spheres, i, shaded, light_ray, j + 1, probes)
         ELSE IF intersect(spheres[j], light_ray).some
              THEN [blocker |-> j, probes |-> probes \cup {j}]
              ELSE ShadowScan(spheres, i, shaded, light_ray, j + 1,
                              probes \cup {j})

\* The body of the outer loop of the diffuse branch for the light at index i.
LightTerm(spheres, shaded, h, i) ==
    Let2(normalized(VSub(spheres[i].center, h.hit_point)),
         VAdd(h.hit_point, VScale(h.hit_normal, bias)),
         LAMBDA light_dir, light_origin :
    Let2(ShadowScan(spheres, i, shaded, Ray(light_origin, light_dir), 1, {}),
         dot_product(h.hit_normal, light_dir), LAMBDA scan, ndotl :
    Let(IF scan.blocker # 0 THEN new_uniform(F(0)) ELSE new_uniform(F(1)),
        LAMBDA transmission :
        [i |-> i, light_ray |-> Ray(light_origin, light_dir),
         blocker |-> scan.blocker, probes |-> scan.probes,
         transmission |-> transmission, ndotl |-> ndotl,
         term |-> VMul(VScale(VMul(spheres[shaded].surface_color, transmission),
                              FMax(F(0), ndotl)),
                       spheres[i].emission)])))

RECURSIVE LightScan(_, _, _, _)
\* The outer loop of the diffuse branch, from index i on: one record per light.
LightScan(spheres, shaded, h, i) ==
    IF i > Len(spheres) THEN <<>>
    ELSE IF IsLight(spheres[i])
         THEN <<LightTerm(spheres, shaded, h, i)>>
              \o LightScan(spheres, shaded, h, i + 1)
         ELSE LightScan(spheres, shaded, h, i + 1)

RECURSIVE SumTerms(_, _)
SumTerms(lights, k) ==
    IF k = 0 THEN new_uniform(F(0))
    ELSE VAdd(SumTerms(lights, k - 1), lights[k].term)

\* The value of the diffuse branch plus the emission.
DiffuseColor(sphere, lights) ==
    VAdd(SumTerms(lights, Len(lights)), sphere.emission)

-----------------------------------------------------------------------------
(* main.rs: trace, as a machine with an explicit call stack *)

NoH == [hit_point |-> VDefault, hit_normal |-> VDefault, is_inside |-> FALSE]

\* The frame of a fresh invocation trace(ray, spheres, depth).
Frame(ray, depth) ==
    [ray |-> ray, depth |-> depth, pc |-> "start", idx |-> 0, t |-> 0,
     h |-> NoH, reflection |-> VDefault, kids |-> 0]

NoRet == [set |-> FALSE, val |-> VDefault]

Returned(v) == [set |-> TRUE, val |-> v]

Event(ev, f, lights, refraction, value) ==
    [ev |-> ev, depth |-> f.depth, ray |-> f.ray, idx |-> f.idx, t |-> f.t,
     h |-> f.h, kids |-> f.kids, lights |-> lights,
     refraction |-> refraction, value |-> value]

NoEvent == Event("none", Frame(Ray(VDefault, VDefault), 0), <<>>, VDefault, VDefault)

Top == stack[Len(stack)]

Pop == SubSeq(stack, 1, Len(stack) - 1)

\* A recursive call: the caller's frame f stays below the callee's.
Call(f, ray) ==
    /\ stack' = Append([stack EXCEPT ![Len(stack)] = f],
                       Frame(ray, ChildDepth(f.depth)))
    /\ ncalls' = ncalls + 1
    /\ maxseen' = Max(maxseen, ChildDepth(f.depth))
    /\ ret' = NoRet

\* `return` of the top invocation with value v.
Return(v) ==
    /\ stack' = Pop
    /\ ret' = Returned(v)
    /\ UNCHANGED <<ncalls, maxseen>>

\* No sphere is hit: return the background colour.
TraceMiss ==
    /\ stack # <<>>
    /\ Top.pc = "start"
    /\ NearestHit(scene, Top.ray).idx = 0
    /\ Return(Background)
    /\ last' = Event("miss", Top, <<>>, VDefault, Background)
    /\ UNCHANGED <<scene, ray0, depth0, renderVars, geomVars>>

\* The top frame once its nearest hit is known.
HitFrame(near, h) == [Top EXCEPT !.idx = near.idx, !.t = near.t, !.h = h]

\* The specular branch, up to its first recursive call (the reflection ray).
SpecularEnter(f) ==
    /\ Call(f, ReflectRay(f.ray, f.h))
    /\ last' = Event("enter", f, <<>>, VDefault, VDefault)

SpecularHit(near) ==
    /\ near.idx # 0
    /\ SpecularCond(Top.depth, scene[near.idx])
    /\ \E h \in {HitOf(scene, Top.ray, near)} :
           \E f \in {[HitFrame(near, h) EXCEPT !.pc = "reflect", !.kids = 1]} :
               SpecularEnter(f)

\* A hit in the specular branch: trace the reflection ray.
TraceSpecular ==
    /\ stack # <<>>
    /\ Top.pc = "start"
    /\ \E near \in {NearestHit(scene, Top.ray)} : SpecularHit(near)
    /\ UNCHANGED <<scene, ray0, depth0, renderVars, geomVars>>

SpecularMid(f) ==
    /\ Call(f, RefractRay(f.ray, f.h))
    /\ last' = Event("mid", f, <<>>, VDefault, VDefault)

\* The reflection ray has returned and the sphere is transparent: trace the
\* refraction ray.
TraceRefract ==
    /\ stack # <<>>
    /\ Top.pc = "reflect"
    /\ ret.set
    /\ RefractCond(scene[Top.idx])
    /\ SpecularMid([Top EXCEPT !.pc = "refract", !.reflection = ret.val,
                               !.kids = Top.kids + 1])
    /\ UNCHANGED <<scene, ray0, depth0, renderVars, geomVars>>

\* The end of the specular branch: surface_color + near_sphere.emission.
SpecularExit(refraction, v) ==
    \E value \in {v} :
        /\ Return(value)
        /\ last' = Event("exit", Top, <<>>, refraction, value)

\* The reflection ray has returned and the sphere is not transparent: the
\* refraction colour is zero.
TraceNoRefract ==
    /\ stack # <<>>
    /\ Top.pc = "reflect"
    /\ ret.set
    /\ ~RefractCond(scene[Top.idx])
    /\ SpecularExit(new_uniform(F(0)),
                    SpecularColor(scene[Top.idx], fresnel_effect(Top.ray, Top.h),
                                  ret.val, new_uniform(F(0))))
    /\ UNCHANGED <<scene, ray0, depth0, renderVars, geomVars>>

\* The refraction ray has returned.
TraceRefracted ==
    /\ stack # <<>>
    /\ Top.pc = "refract"
    /\ ret.set
    /\ SpecularExit(ret.val,
                    SpecularColor(scene[Top.idx], fresnel_effect(Top.ray, Top.h),
                                  Top.reflection, ret.val))
    /\ UNCHANGED <<scene, ray0, depth0, renderVars, geomVars>>

\* The end of the diffuse branch: surface_color + near_sphere.emission.
DiffuseExit(f, lights, v) ==
    /\ Return(v)
    /\ last' = Event("diffuse", f, lights, VDefault, v)

\* The diffuse branch: the loop over the lights.
DiffuseShade(f, lights) ==
    \E value \in {DiffuseColor(scene[f.idx], lights)} :
        DiffuseExit(f, lights, value)

DiffuseEnter(f) ==
    \E lights \in {LightScan(scene, f.idx, f.h, 1)} : DiffuseShade(f, lights)

DiffuseHit(near) ==
    /\ near.idx # 0
    /\ ~SpecularCond(Top.depth, scene[near.idx])
    /\ \E h \in {HitOf(scene, Top.ray, near)} :
           \E f \in {HitFrame(near, h)} : DiffuseEnter(f)

\* A hit in the diffuse/lighting branch.
TraceDiffuse ==
    /\ stack # <<>>
    /\ Top.pc = "start"
    /\ \E near \in {NearestHit(scene, Top.ray)} : DiffuseHit(near)
    /\ UNCHANGED <<scene, ray0, depth0, renderVars, geomVars>>

-----------------------------------------------------------------------------
(* Scenes and rays the standalone calls of trace are made with *)

\* The point (a, b, c) for whole numbers a, b, c.
P(a, b, c) == Vec3(F(a), F(b), F(c))

Black == new_uniform(F(0))

Grey == new_uniform(D(5000))

\* Two mirrors facing each other along the z axis, and a lamp above them.
MirrorA == Sphere(P(0, 0, -4), F(2), Vec3(D(9000), D(9000), D(9000)), Black, 0, F(1))

MirrorB == Sphere(P(0, 0, 4), F(2), Vec3(D(9000), D(9000), D(9000)), Black, 0, F(1))

LampUp == Sphere(P(0, 8, 0), F(1), Black, new_uniform(F(3)), 0, 0)

\* A transparent and reflective sphere in front of an opaque one.
Glass == Sphere(P(0, 0, -4), F(2), Vec3(F(1), D(9000), D(8000)), Black, D(5000), F(1))

Wall == Sphere(P(0, 0, -12), F(4), Vec3(D(5000), D(2000), D(2000)), Black, 0, 0)

\* An opaque sphere, an occluder and a lamp in a row on the z axis.
Shaded == Sphere(P(0, 0, -4), F(1), Grey, Black, 0, 0)

Occluder == Sphere(P(0, 0, 2), F(1), Grey, Black, 0, 0)

LampZ == Sphere(P(0, 0, 5), F(1), Black, new_uniform(F(3)), 0, 0)

\* An opaque sphere around the origin and a lamp outside it.
Hollow == Sphere(P(0, 0, 0), F(2), Grey, Black, 0, 0)

LampBack == Sphere(P(0, 0, -6), F(1), Black, new_uniform(F(3)), 0, 0)

\* An opaque sphere whose surface colour is zero.
BlackBall == Sphere(P(0, 0, -4), F(1), Black, Black, 0, 0)

\* An opaque sphere with a blue-free surface under a green-free lamp; the
\* ray from (1.9, 0, 0) hits it at a slant.
Tinted == Sphere(P(0, 0, -4), F(2), Vec3(D(5000), D(2000), 0), Black, 0, 0)

LampTint == Sphere(P(0, 0, 5), F(1), Black, Vec3(F(3), 0, F(3)), 0, 0)

\* 2^-100: a surface colour and an emission whose product underflows.
Dim == FDiv(FDiv(FDiv(FDiv(FDiv(F(1), F(2 ^ 20)), F(2 ^ 20)), F(2 ^ 20)),
                 F(2 ^ 20)), F(2 ^ 20))

Faint == Sphere(P(0, 0, -4), F(1), new_uniform(Dim), Black, 0, 0)

LampDim == Sphere(P(0, 0, 5), F(1), Black, new_uniform(Dim), 0, 0)

\* A transparent sphere around the origin.
Bubble == Sphere(P(0, 0, 0), F(2), new_uniform(F(1)), Black, D(5000), 0)

TraceScenes ==
    { <<>>,
      <<MirrorA, MirrorB, LampUp>>,
      <<Glass, Wall, LampUp>>,
      <<Shaded, Occluder, LampZ>>,
      <<Shaded, LampZ>>,
      <<Hollow, LampBack>>,
      <<Hollow, Occluder, LampZ>>,
      <<BlackBall, LampZ>>,
      <<Tinted, LampTint>>,
      <<Faint, LampDim>>,
      <<Bubble, LampUp>> }

TraceRays ==
    { Ray(P(0, 0, 0), P(0, 0, -1)),
      Ray(P(0, 0, 0), P(0, 0, 1)),
      Ray(Vec3(D(19000), 0, 0), P(0, 0, -1)),
      Ray(P(0, 0, 0), Vec3(D(6000), 0, FNeg(D(8000)))) }

\* The greatest depth a standalone call of trace is made with.
MaxStartDepth == 6

RenderOff ==
    /\ rpc = "off"
    /\ rx = 0
    /\ ry = 0
    /\ image = <<>>
    /\ written = <<>>
    /\ visits = <<>>

GeomOff ==
    /\ gray = Ray(VDefault, VDefault)
    /\ gres = <<>>
    /\ gnear = NoHit
    /\ gpc = "off"

\* A standalone call trace(ray0, scene, depth0).
Init ==
    /\ scene \in TraceScenes
    /\ ray0 \in TraceRays
    /\ depth0 \in 0..MaxStartDepth
    /\ stack = <<Frame(ray0, depth0)>>
    /\ ret = NoRet
    /\ ncalls = 1
    /\ maxseen = depth0
    /\ last = NoEvent
    /\ RenderOff
    /\ GeomOff

Next ==
    \/ TraceMiss
    \/ TraceSpecular
    \/ TraceRefract
    \/ TraceNoRefract
    \/ TraceRefracted
    \/ TraceDiffuse

Spec == Init /\ [][Next]_vars

-----------------------------------------------------------------------------
(* main.rs: render *)

\* const WIDTH and const HEIGHT of render, scaled down.
WIDTH == 4

HEIGHT == 3

\* f32::tan(PI * 0.5 * FOV / 180.0) for FOV = 30.0: the f32 0.267949194.
angle == 1049178275

inv_width == FDiv(F(1), F(WIDTH))

inv_height == FDiv(F(1), F(HEIGHT))

ASPECT_RATIO == FDiv(F(WIDTH), F(HEIGHT))

\* The ray render builds for the loop variables x and y.
CameraRay(x, y) ==
    Ray(new_uniform(F(0)),
        normalized(Vec3(
            FMul(FMul(FSub(FMul(F(2), FMul(FAdd(F(x), D(5000)), inv_width)), F(1)),
                      angle), ASPECT_RATIO),
            FMul(FSub(F(1), FMul(F(2), FMul(FAdd(F(y), D(5000)), inv_height))),
                 angle),
            FNeg(F(1)))))

\* The index of `image` the loop body writes for the loop variables x and y.
PixelIndex(x, y) == x + y

\* The exclusive upper bound of the inner loop variable x.
XBound == HEIGHT

\* The loop body up to the call of trace: `&mut image[x + y]` panics when the
\* index is out of bounds, else trace(ray, spheres, 0) is called.
RenderCall ==
    /\ rpc = "loop"
    /\ IF PixelIndex(rx, ry) >= WIDTH * HEIGHT
       THEN /\ rpc' = "panic"
            /\ UNCHANGED <<stack, ret, ncalls, maxseen, ray0, depth0>>
       ELSE /\ rpc' = "call"
            /\ \E ray \in {CameraRay(rx, ry)} :
                   /\ ray0' = ray
                   /\ stack' = <<Frame(ray, 0)>>
            /\ depth0' = 0
            /\ ret' = NoRet
            /\ ncalls' = 1
            /\ maxseen' = 0
    /\ UNCHANGED <<scene, last, rx, ry, image, written, visits, geomVars>>

\* trace has returned: `*pixel = ...`, then the loops advance.
RenderStore ==
    /\ rpc = "call"
    /\ stack = <<>>
    /\ ret.set
    /\ image' = [image EXCEPT ![PixelIndex(rx, ry)] = ret.val]
    /\ written' = [written EXCEPT ![PixelIndex(rx, ry)] = Append(@, <<rx, ry>>)]
    /\ visits' = Append(visits, [x |-> rx, y |-> ry, color |-> ret.val])
    /\ ret' = NoRet
    /\ IF rx + 1 < XBound
       THEN /\ rx' = rx + 1
            /\ ry' = ry
            /\ rpc' = "loop"
       ELSE IF ry + 1 < HEIGHT
            THEN /\ rx' = 0
                 /\ ry' = ry + 1
                 /\ rpc' = "loop"
            ELSE /\ rpc' = "opening"
                 /\ UNCHANGED <<rx, ry>>
    /\ UNCHANGED <<scene, stack, ncalls, maxseen, last, ray0, depth0, geomVars>>

\* File::open("raytraced.ppm")?: render returns Ok(()) or the error.
RenderFinish ==
    /\ rpc = "opening"
    /\ \E r \in {"ok", "err"} : rpc' = r
    /\ UNCHANGED <<scene, traceVars, rx, ry, image, written, visits, geomVars>>

\* The scenes render is called with.
RenderScenes ==
    { <<Sphere(Vec3(D(5000), 0, FNeg(F(4))), D(5000),
               Vec3(F(1), D(9000), D(8000)), Black, D(5000), F(1)),
        Sphere(P(0, 0, -12), F(4), Vec3(D(5000), D(2000), D(2000)), Black, 0, 0),
        Sphere(Vec3(FNeg(D(5000)), 0, FNeg(F(4))), D(5000),
               Vec3(D(9000), D(9000), D(9000)), Black, 0, F(1)),
        Sphere(P(0, 8, -4), F(1), Black, new_uniform(F(3)), 0, 0)>>,
      <<Glass, Wall, LampUp>>,
      <<MirrorA, MirrorB, LampUp>>,
      <<>> }

InitRender ==
    /\ scene \in RenderScenes
    /\ rpc = "loop"
    /\ rx = 0
    /\ ry = 0
    /\ image = [i \in 0..(WIDTH * HEIGHT - 1) |-> VDefault]
    /\ written = [i \in 0..(WIDTH * HEIGHT - 1) |-> <<>>]
    /\ visits = <<>>
    /\ stack = <<>>
    /\ ret = NoRet
    /\ ncalls = 0
    /\ maxseen = 0
    /\ last = NoEvent
    /\ ray0 = Ray(VDefault, VDefault)
    /\ depth0 = 0
    /\ GeomOff

NextRender ==
    \/ RenderCall
    \/ RenderStore
    \/ RenderFinish
    \/ TraceMiss
    \/ TraceSpecular
    \/ TraceRefract
    \/ TraceNoRefract
    \/ TraceRefracted
    \/ TraceDiffuse

SpecRender == InitRender /\ [][NextRender]_vars

-----------------------------------------------------------------------------
(* intersect and the nearest-hit search applied to drawn inputs *)

\* The greatest radius and the greatest number of spheres drawn.
MaxRadius == 3

MaxSpheres == 2

GeomCenters == {P(0, 0, 0), P(0, 0, -3), P(0, 0, -4), P(1, 0, -4)}

\* A sphere so far away (2^72 down the z axis) that the squares intersect
\* computes for it overflow to infinity.
Far == Sphere(Vec3(0, 0, FNeg(Powi3(Powi3(F(256))))), F(1), Grey, Black, 0, 0)

GeomSpheres ==
    {Sphere(c, F(r), Grey, Black, 0, 0) : c \in GeomCenters, r \in 1..MaxRadius}
    \cup {Far}

GeomScenes ==
    UNION {[1..n -> GeomSpheres] : n \in 0..MaxSpheres}

\* The last ray has the direction the refraction step of trace produces when
\* its discriminant k is negative: normalized leaves (NaN, NaN, NaN) unchanged.
GeomRays ==
    {Ray(o, d) : o \in {P(0, 0, 0), P(0, 0, 5), P(1, 0, 0), P(0, 0, -5)},
                 d \in {P(0, 0, -1), P(0, 0, 1), Vec3(D(6000), 0, FNeg(D(8000)))}}
    \cup {Ray(P(0, 0, 0), new_uniform(NaN))}

InitGeom ==
    /\ scene \in GeomScenes
    /\ gray \in GeomRays
    /\ gres = <<>>
    /\ gnear = NoHit
    /\ gpc = "in"
    /\ stack = <<>>
    /\ ret = NoRet
    /\ ncalls = 0
    /\ maxseen = 0
    /\ last = NoEvent
    /\ ray0 = Ray(VDefault, VDefault)
    /\ depth0 = 0
    /\ RenderOff

\* sphere.intersect(&ray) for every sphere of the scene.
GeomIntersect ==
    /\ gpc = "in"
    /\ gres' = [i \in 1..Len(scene) |-> intersect(scene[i], gray)]
    /\ gpc' = "hit"
    /\ UNCHANGED <<scene, gray, gnear, traceVars, renderVars>>

\* The nearest-hit loop of trace on the scene.
GeomNearest ==
    /\ gpc = "hit"
    /\ gnear' = NearestHit(scene, gray)
    /\ gpc' = "out"
    /\ UNCHANGED <<scene, gray, gres, traceVars, renderVars>>

NextGeom ==
    \/ GeomIntersect
    \/ GeomNearest

SpecGeom == InitGeom /\ [][NextGeom]_vars

-----------------------------------------------------------------------------
(* Properties of intersect and of the nearest-hit search (SpecGeom) *)

\* |a - b| <= 1e-4, for numbers a and b.
Close(a, b) == FLeq(FAbs(FSub(a, b)), D(1))

NaNVec(v) == IsNaN(v.x) \/ IsNaN(v.y) \/ IsNaN(v.z)

NaNRay(ray) == NaNVec(ray.origin) \/ NaNVec(ray.direction)

\* L . direction for L = centre - origin.
Tca(sphere, ray) ==
    dot_product(VSub(sphere.center, ray.origin), ray.direction)

\* d2 as intersect computes it: L . L - tca * tca.
D2(sphere, ray) ==
    FSub(dot_product(VSub(sphere.center, ray.origin),
                     VSub(sphere.center, ray.origin)),
         FMul(Tca(sphere, ray), Tca(sphere, ray)))

\* a is neither NaN nor an infinity.
Finite(a) == Bits(a) < INFINITY

\* The point origin + direction * t lies on the surface of the sphere.
OnSphere(sphere, ray, t) ==
    Close(sqr_magnitude(VSub(VAdd(ray.origin, VScale(ray.direction, t)),
                             sphere.center)),
          sphere.sqr_radius)

\* The origin of the ray lies strictly inside the sphere.
OriginInside(sphere, ray) ==
    FLt(sqr_magnitude(VSub(sphere.center, ray.origin)), sphere.sqr_radius)

\* C5: intersect reports no intersection for every ray whose origin-to-centre
\* vector has a negative dot product with the ray direction, whatever the
\* radius, also when the ray origin lies inside the sphere.
C5_BehindIsNone ==
    gpc # "in" =>
        \A i \in 1..Len(scene) :
            FLt(Tca(scene[i], gray), 0) => gres[i] = None

\* A ray that starts inside a sphere whose centre is behind it has been
\* intersected with that sphere.
C5_Witness ==
    /\ gpc = "hit"
    /\ \E i \in 1..Len(scene) :
           /\ FLt(Tca(scene[i], gray), 0)
           /\ OriginInside(scene[i], gray)
           /\ gres[i] = None

\* C6 as stated: whenever intersect returns a pair (t0, t1), t0 <= t1.
C6_Original ==
    gpc # "in" =>
        \A i \in 1..Len(scene) :
            gres[i].some => FLeq(gres[i].t0, gres[i].t1)

\* C6 as amended: a returned pair is (tca - thc, tca + thc) with
\* thc = sqrt(sqr_radius - d2).  When tca and d2 are finite numbers, thc >= 0
\* and t0 <= t1, t0 + t1 = 2 * tca and both points lie on the sphere; a sphere
\* of radius r centred at the origin with the ray from (0,0,5) along (0,0,-1)
\* gives (5 - r, 5 + r).  When d2 is NaN (a NaN component of the ray, or
\* squares that overflow to infinity - infinity) the test d2 > sqr_radius is
\* false, a pair is returned all the same, and it is (NaN, NaN).
C6_PairOrdered ==
    gpc # "in" =>
        \A i \in 1..Len(scene) :
            /\ (gres[i].some /\ Finite(Tca(scene[i], gray))
                  /\ Finite(D2(scene[i], gray))) =>
                   /\ FLeq(gres[i].t0, gres[i].t1)
                   /\ Close(FAdd(gres[i].t0, gres[i].t1),
                            FMul(F(2), Tca(scene[i], gray)))
                   /\ OnSphere(scene[i], gray, gres[i].t0)
                   /\ OnSphere(scene[i], gray, gres[i].t1)
            /\ (IsNaN(D2(scene[i], gray)) /\ ~FLt(Tca(scene[i], gray), 0)) =>
                   gres[i] = Some(NaN, NaN)
            /\ NaNVec(gray.direction) => IsNaN(D2(scene[i], gray))
            /\ (scene[i].center = P(0, 0, 0)
                  /\ gray = Ray(P(0, 0, 5), P(0, 0, -1))) =>
                   gres[i] = Some(FSub(F(5), scene[i].radius),
                                  FAdd(F(5), scene[i].radius))

\* The sphere at the origin has been intersected with the ray from (0,0,5)
\* along (0,0,-1), and with a ray that crosses it off-centre.
C6_Witness ==
    /\ gpc = "hit"
    /\ Len(scene) = 2
    /\ scene[1].center = P(0, 0, 0)
    /\ gray = Ray(P(0, 0, 5), P(0, 0, -1))
    /\ gres[1].some
    /\ FLt(gres[1].t0, gres[1].t1)
    /\ gres[2].some
    /\ scene[2].center = P(1, 0, -4)

\* The effective distance of intersected sphere i: t1 when t0 is negative.
Eff(i) == IF FLt(gres[i].t0, 0) THEN gres[i].t1 ELSE gres[i].t0

\* The spheres intersect returned a pair for.
Intersected == {i \in 1..Len(scene) : gres[i].some}

\* near is the lowest-indexed sphere of minimum effective distance among the
\* spheres of S, or a miss when S is empty.
NearestOf(S, near) ==
    IF S = {} THEN near.idx = 0
    ELSE /\ near.idx \in S
         /\ near.t = Eff(near.idx)
         /\ \A j \in S : FLeq(near.t, Eff(j))
         /\ \A j \in S : j < near.idx => FLt(near.t, Eff(j))

\* C8 as stated: the search selects the lowest-indexed sphere of minimum
\* effective distance over all intersected spheres, and a miss when none is.
C8_Original == gpc = "out" => NearestOf(Intersected, gnear)

\* C8 as amended: the search selects the lowest-indexed sphere of minimum
\* effective distance (t1 when t0 is negative, else t0) over the intersected
\* spheres whose effective distance is not NaN, and a miss when there is none.
C8_NearestLowestIndex ==
    gpc = "out" =>
        NearestOf({i \in Intersected : ~IsNaN(Eff(i))}, gnear)

\* Two spheres at exactly the same effective distance, the second one hit
\* from inside the first; the first is selected.
C8_Witness ==
    /\ gpc = "out"
    /\ Len(scene) = 2
    /\ gres[1].some
    /\ gres[2].some
    /\ scene[1] # scene[2]
    /\ Eff(1) = Eff(2)
    /\ gnear.idx = 1

\* C10: whenever the nearest-hit search selects a sphere, the effective hit
\* distance is a number >= 0, so the hit point origin + direction * t is not
\* behind the ray origin.
C10_HitInFront ==
    (gpc = "out" /\ gnear.idx # 0) =>
        /\ FLeq(0, gnear.t)
        /\ FLt(gnear.t, INFINITY)
        /\ FLeq(0, dot_product(VScale(gray.direction, gnear.t), gray.direction))

\* A sphere is selected whose near intersection lies behind the origin: the
\* far one is the hit distance.
C10_Witness ==
    /\ gpc = "out"
    /\ gnear.idx # 0
    /\ FLt(gres[gnear.idx].t0, 0)
    /\ gnear.t = gres[gnear.idx].t1
    /\ FGt(gnear.t, 0)

-----------------------------------------------------------------------------
(* Properties of trace (Spec) *)

\* trace has returned to the caller that made the standalone call.
Finished == stack = <<>> /\ ret.set

\* The top invocation can take its next step: it is at its start (one of
\* TraceMiss, TraceSpecular and TraceDiffuse applies) or the child it waited
\* for has returned.
Runnable ==
    \/ Top.pc = "start"
    \/ Top.pc \in {"reflect", "refract"} /\ ret.set

\* C1: a call trace(ray, scene, 0) terminates (until it has returned its top
\* invocation can step, and it makes at most 2^(MAX_RAY_DEPTH + 1) - 1
\* invocations);
\* every recursive call runs with its caller's depth plus one; no invocation
\* runs with a depth above MAX_RAY_DEPTH; an invocation at depth MAX_RAY_DEPTH
\* makes no recursive call.
C1_DepthBounded ==
    (rpc = "off" /\ gpc = "off" /\ depth0 = 0) =>
        /\ \A k \in 1..Len(stack) :
               /\ stack[k].depth = k - 1
               /\ stack[k].depth <= MAX_RAY_DEPTH
               /\ stack[k].depth = MAX_RAY_DEPTH =>
                      (k = Len(stack) /\ stack[k].pc = "start")
               /\ k < Len(stack) => stack[k].pc \in {"reflect", "refract"}
        /\ maxseen <= MAX_RAY_DEPTH
        /\ ncalls <= 2 ^ (MAX_RAY_DEPTH + 1) - 1
        /\ stack # <<>> => Runnable
        /\ stack = <<>> => ret.set

\* Between the two facing mirrors, the invocation at depth MAX_RAY_DEPTH has
\* hit a reflective sphere and returned from the diffuse branch.
C1_Witness ==
    /\ depth0 = 0
    /\ scene = <<MirrorA, MirrorB, LampUp>>
    /\ last.ev = "diffuse"
    /\ last.depth = MAX_RAY_DEPTH
    /\ FGt(scene[last.idx].reflection, 0)
    /\ Len(stack) = MAX_RAY_DEPTH
    /\ ncalls = MAX_RAY_DEPTH + 1

\* C3: on an empty scene trace returns the colour (2, 2, 2) for every ray and
\* every depth, also at and above MAX_RAY_DEPTH, in one invocation.
C3_EmptyScene ==
    (rpc = "off" /\ gpc = "off" /\ scene = <<>>) =>
        /\ ncalls = 1
        /\ Len(stack) <= 1
        /\ stack # <<>> => (ENABLED TraceMiss /\ ~ret.set)
        /\ stack = <<>> =>
               /\ ret = Returned(new_uniform(F(2)))
               /\ last.ev = "miss"
               /\ last.depth = depth0
               /\ last.ray = ray0

\* trace has returned from a call on the empty scene made with a depth above
\* MAX_RAY_DEPTH.
C3_Witness ==
    /\ scene = <<>>
    /\ depth0 > MAX_RAY_DEPTH
    /\ Finished
    /\ ncalls = 1

\* The branch condition of trace for an invocation at `depth` that hit sphere.
BranchCond(depth, sphere) ==
    /\ depth < MAX_RAY_DEPTH
    /\ (FGt(sphere.transparency, 0) \/ FGt(sphere.reflection, 0))

\* C9: at every hit exactly one branch is taken, the specular one iff
\* depth < MAX_RAY_DEPTH and (transparency > 0 or reflection > 0); the specular
\* branch casts no shadow ray and always traces the reflection ray; it traces
\* the refraction ray iff transparency > 0, and the refraction colour is zero
\* otherwise; the diffuse branch makes no recursive call.
C9_BranchExclusive ==
    (rpc = "off" /\ gpc = "off") =>
        /\ last.ev = "miss" => last.idx = 0
        /\ last.ev \in {"enter", "mid", "exit", "diffuse"} =>
              /\ last.idx = NearestHit(scene, last.ray).idx
              /\ last.idx # 0
        /\ last.ev = "enter" =>
              /\ BranchCond(last.depth, scene[last.idx])
              /\ last.lights = <<>>
              /\ last.kids = 1
              /\ Top = Frame(ReflectRay(last.ray, last.h), last.depth + 1)
        /\ last.ev = "mid" =>
              /\ BranchCond(last.depth, scene[last.idx])
              /\ FGt(scene[last.idx].transparency, 0)
              /\ last.lights = <<>>
              /\ last.kids = 2
              /\ Top = Frame(RefractRay(last.ray, last.h), last.depth + 1)
        /\ last.ev = "exit" =>
              /\ BranchCond(last.depth, scene[last.idx])
              /\ last.lights = <<>>
              /\ last.kids = (IF FGt(scene[last.idx].transparency, 0) THEN 2
                               ELSE 1)
              /\ last.kids = 1 => last.refraction = new_uniform(F(0))
              /\ ret.set
        /\ last.ev = "diffuse" =>
              /\ ~BranchCond(last.depth, scene[last.idx])
              /\ last.kids = 0
              /\ ret.set
              /\ Len(stack) = last.depth - depth0

\* The specular branch has ended on a reflective sphere that is not
\* transparent: one child ray was traced.
C9_Witness ==
    /\ last.ev = "exit"
    /\ FGt(scene[last.idx].reflection, 0)
    /\ IsZero(scene[last.idx].transparency)
    /\ last.kids = 1
    /\ last.refraction = new_uniform(F(0))
    /\ ncalls > 1

-----------------------------------------------------------------------------
(* Properties of the diffuse branch (Spec) *)

\* The sphere is fully opaque and not reflective.
Opaque(sphere) == IsZero(sphere.transparency) /\ IsZero(sphere.reflection)

\* The sphere lies between the points a and b: its centre projects strictly
\* inside the segment from a to b, and the segment passes through it.
OccluderBetween(sphere, a, b) ==
    LET u  == VSub(sphere.center, a)
        dn == normalized(VSub(b, a))
        tp == dot_product(u, dn)
    IN  /\ FLt(0, tp)
        /\ FLt(FMul(tp, tp), sqr_magnitude(VSub(b, a)))
        /\ FLeq(FSub(dot_product(u, u), FMul(tp, tp)), sphere.sqr_radius)

\* The spheres other than the shaded one and the light of record lt that lie
\* between the hit point and that light.
ThirdBetween(lt) ==
    {j \in 1..Len(scene) :
        /\ j \notin {last.idx, lt.i}
        /\ OccluderBetween(scene[j], last.h.hit_point, scene[lt.i].center)}

\* 2^-40: three factors of at least this size have a product that does not
\* underflow.
MinFactor == FDiv(FDiv(F(1), F(2 ^ 20)), F(2 ^ 20))

\* The term of record lt is positive in the channel whose surface colour is
\* col and whose emission is em, when col, em and n . l are at least 2^-40.
PositiveChannel(lt, col, em, term) ==
    (FLeq(MinFactor, col) /\ FLeq(MinFactor, em) /\ FLeq(MinFactor, lt.ndotl))
        => FGt(term, 0)

\* Every channel of the term is positive in which the surface colour and the
\* emission are at least 2^-40, when n . l is.
PositiveTerm(lt) ==
    /\ PositiveChannel(lt, scene[last.idx].surface_color.x,
                       scene[lt.i].emission.x, lt.term.x)
    /\ PositiveChannel(lt, scene[last.idx].surface_color.y,
                       scene[lt.i].emission.y, lt.term.y)
    /\ PositiveChannel(lt, scene[last.idx].surface_color.z,
                       scene[lt.i].emission.z, lt.term.z)

\* The term is zero in the channel whose surface colour col or emission em
\* is zero while the other is finite.
ZeroChannel(col, em, term) ==
    ((IsZero(col) /\ Finite(em)) \/ (IsZero(em) /\ Finite(col)))
        => IsZero(term)

\* Every channel of the term is zero in which the surface colour or the
\* emission is.
ZeroTerm(lt) ==
    /\ ZeroChannel(scene[last.idx].surface_color.x, scene[lt.i].emission.x,
                   lt.term.x)
    /\ ZeroChannel(scene[last.idx].surface_color.y, scene[lt.i].emission.y,
                   lt.term.y)
    /\ ZeroChannel(scene[last.idx].surface_color.z, scene[lt.i].emission.z,
                   lt.term.z)

\* The term of an unblocked light: surface colour * max(0, n . l) * emission,
\* channel by channel.
UnblockedTerm(lt) ==
    VMul(VScale(scene[last.idx].surface_color, FMax(F(0), lt.ndotl)),
         scene[lt.i].emission)

\* The transmission computed for every light is (0, 0, 0) or (1, 1, 1).
TransmissionBinary ==
    \A k \in 1..Len(last.lights) :
        last.lights[k].transmission \in {new_uniform(F(0)), new_uniform(F(1))}

\* A third sphere between the hit point and the only light makes the term of
\* that light zero.
OccludedIsDark ==
    (Opaque(scene[last.idx]) /\ Len(last.lights) = 1
        /\ ThirdBetween(last.lights[1]) # {}) =>
        /\ last.lights[1].transmission = new_uniform(F(0))
        /\ last.lights[1].term = new_uniform(F(0))
        /\ last.lights[1].blocker # 0

\* The scene holds the shaded sphere and its only light, and the normal at
\* the hit point faces the light.
LitAlone ==
    /\ Opaque(scene[last.idx])
    /\ Len(scene) = 2
    /\ Len(last.lights) = 1
    /\ last.lights[1].i # last.idx
    /\ FGt(last.lights[1].ndotl, 0)

ProbedExcept(lt, skipped) ==
    {j \in 1..Len(scene) :
        /\ j \notin skipped
        /\ (lt.blocker = 0 \/ j <= lt.blocker)}

\* C7 as stated: the shadow ray toward light i is tested against every sphere
\* except light i and the shaded sphere, and neither of the two can set the
\* transmission for light i to 0.
C7_Original ==
    (rpc = "off" /\ gpc = "off" /\ last.ev = "diffuse") =>
        \A k \in 1..Len(last.lights) :
            /\ last.lights[k].blocker \notin {last.lights[k].i, last.idx}
            /\ last.lights[k].probes =
                   ProbedExcept(last.lights[k], {last.lights[k].i, last.idx})

\* C7 as amended: the shadow ray toward light i is tested against every
\* sphere except light i itself (in scene order, up to the first sphere that
\* blocks); light i never sets the transmission for light i to 0; the shaded
\* sphere is tested like any other sphere and sets it to 0 when hit.
C7_ShadowSkipsLight ==
    (rpc = "off" /\ gpc = "off" /\ last.ev = "diffuse") =>
        \A k \in 1..Len(last.lights) :
            /\ last.lights[k].blocker # last.lights[k].i
            /\ last.lights[k].probes =
                   ProbedExcept(last.lights[k], {last.lights[k].i})
            /\ last.lights[k].blocker # 0 <=>
                   last.lights[k].transmission = new_uniform(F(0))
            /\ \A j \in last.lights[k].probes :
                   intersect(scene[j], last.lights[k].light_ray).some
                       <=> j = last.lights[k].blocker

\* The shadow ray of a light has been tested against the shaded sphere, which
\* blocked it, although the normal faces the light.
C7_Witness ==
    /\ last.ev = "diffuse"
    /\ Len(last.lights) = 1
    /\ last.lights[1].i # last.idx
    /\ last.idx \in last.lights[1].probes
    /\ last.lights[1].blocker = last.idx
    /\ FGt(last.lights[1].ndotl, 0)
    /\ last.lights[1].transmission = new_uniform(F(0))

-----------------------------------------------------------------------------
(* Properties of render (SpecRender) *)

\* The pixels stored so far whose loop variables are x and y.
VisitsOf(x, y) == {k \in 1..Len(visits) : visits[k].x = x /\ visits[k].y = y}

\* C2: render visits every pixel (x, y) with 0 <= x < WIDTH and 0 <= y < HEIGHT
\* exactly once, calls trace with depth 0 for it and stores the result at
\* index y * WIDTH + x, so that after the loop every entry of the buffer holds
\* the colour of its own pixel and no entry is written for two pixels.
C2_RowMajor ==
    /\ rpc = "call" => depth0 = 0
    /\ rpc # "off" =>
          \A i \in 0..(WIDTH * HEIGHT - 1) :
              /\ Len(written[i]) <= 1
              /\ \A k \in 1..Len(written[i]) :
                     written[i][k] = <<i % WIDTH, i \div WIDTH>>
    /\ rpc \in {"opening", "ok", "err"} =>
          /\ \A x \in 0..(WIDTH - 1), y \in 0..(HEIGHT - 1) :
                 /\ Cardinality(VisitsOf(x, y)) = 1
                 /\ \A k \in VisitsOf(x, y) :
                        image[y * WIDTH + x] = visits[k].color
          /\ Len(visits) = WIDTH * HEIGHT

====
